---- MODULE Spec2Model ----
(***************************************************************************)
(* Model of find_oldest_sstable.py: a scan of /mnt/cassandra that walks     *)
(* keyspace -> table -> os.walk(table) and keeps the Data.db file with the  *)
(* smallest modification time.                                              *)
(*                                                                          *)
(* Paths are sequences of path components.  The file system is a set of     *)
(* regular files [path, mtime] and a set of directory paths.                *)
(* Modification times are integers counted in ticks of 1/TicksPerSec        *)
(* second, so that the whole-second rendering of the report is a real       *)
(* conversion.                                                              *)
(***************************************************************************)
EXTENDS Integers, Sequences, FiniteSets

VARIABLES
    fs,                \* the files on disk: set of [path, mtime]
    dirs,              \* the directories on disk: set of paths
    pc,                \* position of the scan
    keyspaces,         \* rest of the iteration over os.listdir(base)
    keyspace_path,     \* path of the entry of the base the keyspace loop is at
    tables,            \* rest of the iteration over os.listdir(keyspace_path)
    stack,             \* os.walk: directories still to be walked
    cur,               \* the (root, files) pair os.walk yielded last
    oldest_file_path,  \* running minimum: path (None before the first one)
    oldest_file_time,  \* running minimum: time (Infinity before the first)
    out,               \* what was printed, in order
    log,               \* history of the file system calls the scan made
    faults             \* number of faults the environment injected so far

vars == <<fs, dirs, pc, keyspaces, keyspace_path, tables, stack,
          cur, oldest_file_path, oldest_file_time, out, log, faults>>

----------------------------------------------------------------------------
(* Bounds of the model *)

MaxFiles == 3
MaxTime == 2
MaxFaults == 1
TicksPerSec == 2

----------------------------------------------------------------------------
(* Constants of the program *)

base_cassandra_path == <<"mnt", "cassandra">>

system_keyspaces == {"system", "system_schema", "system_auth",
                     "system_distributed", "system_traces", "system_views"}

TargetFileName == "Data.db"

None == <<>>

Infinity == MaxTime + 1

----------------------------------------------------------------------------
(* The file system *)

IsPrefix(p, q) == Len(p) <= Len(q) /\ SubSeq(q, 1, Len(p)) = p

join(p, name) == Append(p, name)

basename(p) == p[Len(p)]

IsFile(files, p) == \E f \in files : f.path = p

\* os.path.isdir(p), and the is_dir() test of os.walk
IsDir(ds, p) == p \in ds

Parent(p) == SubSeq(p, 1, Len(p) - 1)

\* the directories a set of paths needs, from the base directory down
Ancestors(paths) ==
    UNION { { SubSeq(p, 1, n) : n \in Len(base_cassandra_path)..(Len(p) - 1) } :
            p \in paths }

MTimeOf(files, p) == (CHOOSE f \in files : f.path = p).mtime

ChildNames(files, ds, d) ==
    { basename(p) : p \in { q \in { f.path : f \in files } \cup ds :
                               Len(q) > 0 /\ Parent(q) = d } }

\* the sequences that hold every element of S once
Orderings(S) ==
    { s \in [1..Cardinality(S) -> S] : \A i, j \in 1..Cardinality(S) : s[i] = s[j] => i = j }

\* os.listdir(d), and the names os.scandir(d) yields: the names of the
\* entries of d, in an order the OS chooses at each call
listdir(files, ds, d) == Orderings(ChildNames(files, ds, d))

----------------------------------------------------------------------------
(* The trees the scan is run on.  Paths below are relative to the base. *)

\* files the scan is to find; their times vary
TableFiles ==
    { <<"ks1", "t1", "Data.db">>,
      <<"ks1", "t1", "snapshots", "s1", "Data.db">>,
      <<"ks1", "t2", "Data.db">>,
      <<"ks2", "t1", "Data.db">> }

\* files the scan is to pass over; they are as old as a file can be
StrayFiles ==
    { <<"Data.db">>,
      <<"ks1", "Data.db">>,
      <<"ks1", "t1", "nb-Data.db">> }

UserFiles == TableFiles \cup StrayFiles

\* a directory that holds no file: one named Data.db, inside a table
EmptyDirs == { <<"ks2", "t2", "Data.db">> }

SystemFiles == { <<s, "local", "Data.db">> : s \in system_keyspaces }

Trees ==
    { S \in SUBSET (UserFiles \cup SystemFiles \cup EmptyDirs) :
        /\ Cardinality(S) <= MaxFiles
        /\ Cardinality(S \cap SystemFiles) <= 1 }

\* the errors injected into os.listdir: each ends the scan
ListErrors == {"EACCES", "EPERM", "EIO"}

\* the errors injected into the scandir of os.walk: each is passed over
WalkErrors == {"EACCES", "EIO"}

StatErrors == {"EACCES", "EPERM", "EIO"}

----------------------------------------------------------------------------
(* What the scan prints *)

Message(m, p, t, e) == [msg |-> m, path |-> p, time |-> t, err |-> e]

\* datetime.fromtimestamp(t).strftime('%Y-%m-%d %H:%M:%S'): whole seconds
readable_time(t) == t \div TicksPerSec

\* which except clause of the outer try handles an OSError with this errno
\* (OSError maps EACCES and EPERM to PermissionError)
Handler(e) ==
    IF e \in {"EACCES", "EPERM"} THEN "permission_error" ELSE "unexpected_error"

\* line 36 without the test of system_keyspaces
SkipKeyspace_nosys(ds, keyspace) ==
    ~ IsDir(ds, join(base_cassandra_path, keyspace))

\* line 36: the keyspace loop passes over non-directories and system keyspaces
SkipKeyspace(ds, keyspace) ==
    \/ ~ IsDir(ds, join(base_cassandra_path, keyspace))
    \/ keyspace \in system_keyspaces

\* line 42 with the table directory left out of the join
table_path_nojoin(kpath, table_dir) == kpath

\* line 42: table_path = os.path.join(keyspace_path, table_dir)
table_path_of(kpath, table_dir) == join(kpath, table_dir)

\* line 49: 'Data.db' in files
HasTarget(files) == \E i \in 1..Len(files) : files[i] = TargetFileName

\* line 50 taking the first listed file instead of the one named Data.db
full_path_first(root, files) == join(root, files[1])

\* line 50: full_path = os.path.join(root, 'Data.db')
full_path_of(root, files) == join(root, TargetFileName)

\* line 56 with the comparison turned round
IsOlder_gt(mtime, oldest) == oldest = Infinity \/ mtime > oldest

\* line 56 with a non-strict comparison
IsOlder_le(mtime, oldest) == mtime <= oldest

\* line 56: mtime < oldest_file_time
IsOlder(mtime, oldest) == mtime < oldest

\* line 60 with the except clause missing
Tolerated_none(e) == FALSE

\* line 60 catching every OSError
Tolerated_all(e) == TRUE

\* line 60: except FileNotFoundError: continue
Tolerated(e) == e = "ENOENT"

\* line 73 testing the time against the sentinel with <=
IsFound_time(path, time) == time <= Infinity

\* line 73: if oldest_file_path:
IsFound(path, time) == path # None

Call(op, p, r, v) == [op |-> op, path |-> p, res |-> r, val |-> v]

----------------------------------------------------------------------------
(* The scan *)

Init ==
    /\ \E S \in Trees, present \in BOOLEAN :
         \E m \in [S \cap TableFiles -> 0..MaxTime] :
            IF present
            THEN /\ fs = { [path |-> base_cassandra_path \o p,
                            mtime |-> IF p \in TableFiles THEN m[p] ELSE 0] :
                          p \in S \ EmptyDirs }
                 /\ dirs = {base_cassandra_path}
                            \cup { base_cassandra_path \o p : p \in S \cap EmptyDirs }
                            \cup Ancestors({ base_cassandra_path \o p : p \in S })
            ELSE fs = {} /\ dirs = {}
    /\ pc = "start"
    /\ keyspaces = <<>>
    /\ keyspace_path = <<>>
    /\ tables = <<>>
    /\ stack = <<>>
    /\ cur = [root |-> <<>>, files |-> <<>>]
    /\ oldest_file_path = None
    /\ oldest_file_time = Infinity
    /\ out = <<>>
    /\ log = <<>>
    /\ faults = 0

\* the outcomes os.path.getmtime(p) can have: the time of a file that is
\* there, FileNotFoundError for one that is gone, or an injected OSError
StatResults(files, p, nfaults) ==
    IF ~ IsFile(files, p) THEN {"ENOENT"}
    ELSE {"ok"} \cup (IF nfaults < MaxFaults THEN StatErrors ELSE {})

\* an exception reached one of the outer except clauses: print and return
Abort(printed, p, e) ==
    /\ out' = Append(printed, Message(Handler(e), p, 0, e))
    /\ pc' = "done"

\* lines 19-32: check the base directory, initialise, list the base directory
Start ==
    /\ pc = "start"
    /\ IF ~ IsDir(dirs, base_cassandra_path)
       THEN /\ out' = Append(out, Message("config_error", base_cassandra_path, 0, ""))
            /\ pc' = "done"
            /\ UNCHANGED <<keyspaces, log, faults>>
       ELSE \/ /\ keyspaces' \in listdir(fs, dirs, base_cassandra_path)
               /\ log' = Append(log, Call("listdir", base_cassandra_path, "ok", 0))
               /\ out' = Append(out, Message("scanning", base_cassandra_path, 0, ""))
               /\ pc' = "keyspaces"
               /\ UNCHANGED faults
            \/ \E e \in ListErrors :
                 /\ faults < MaxFaults
                 /\ faults' = faults + 1
                 /\ log' = Append(log, Call("listdir", base_cassandra_path, e, 0))
                 /\ Abort(Append(out, Message("scanning", base_cassandra_path, 0, "")),
                          base_cassandra_path, e)
                 /\ UNCHANGED keyspaces
    /\ oldest_file_path' = None
    /\ oldest_file_time' = Infinity
    /\ UNCHANGED <<fs, dirs, keyspace_path, tables, stack, cur>>

\* lines 32-40: one iteration of the keyspace loop, up to the listing of it
NextKeyspace ==
    /\ pc = "keyspaces"
    /\ keyspaces # <<>>
    /\ LET keyspace == Head(keyspaces)
           kpath == join(base_cassandra_path, keyspace)
       IN  /\ keyspaces' = Tail(keyspaces)
           /\ keyspace_path' = kpath
           /\ IF SkipKeyspace(dirs, keyspace)
              THEN UNCHANGED <<pc, tables, out, log, faults>>
              ELSE \/ /\ tables' \in listdir(fs, dirs, kpath)
                      /\ log' = Append(log, Call("listdir", kpath, "ok", 0))
                      /\ pc' = "tables"
                      /\ UNCHANGED <<out, faults>>
                   \/ \E e \in ListErrors :
                        /\ faults < MaxFaults
                        /\ faults' = faults + 1
                        /\ log' = Append(log, Call("listdir", kpath, e, 0))
                        /\ Abort(out, kpath, e)
                        /\ UNCHANGED tables
    /\ UNCHANGED <<fs, dirs, stack, cur, oldest_file_path, oldest_file_time>>

\* lines 40-47: one iteration of the table loop, up to the call of os.walk
NextTable ==
    /\ pc = "tables"
    /\ IF tables = <<>>
       THEN /\ pc' = "keyspaces"
            /\ UNCHANGED <<tables, stack>>
       ELSE LET table_path == table_path_of(keyspace_path, Head(tables))
            IN  /\ tables' = Tail(tables)
                /\ IF ~ IsDir(dirs, table_path)
                   THEN UNCHANGED <<pc, stack>>
                   ELSE /\ stack' = <<table_path>>
                        /\ pc' = "walk"
    /\ UNCHANGED <<fs, dirs, keyspaces, keyspace_path, cur,
                   oldest_file_path, oldest_file_time, out, log, faults>>

\* line 47: os.walk produces its next (root, dirs, files); with onerror=None
\* a directory whose scandir fails is passed over
WalkNext ==
    /\ pc = "walk"
    /\ IF stack = <<>>
       THEN /\ pc' = "tables"
            /\ UNCHANGED <<stack, cur, log, faults>>
       ELSE LET top == Head(stack)
            IN  \/ \E names \in listdir(fs, dirs, top) :
                     LET subdirs == SelectSeq(names, LAMBDA n : IsDir(dirs, join(top, n)))
                         files == SelectSeq(names, LAMBDA n : ~ IsDir(dirs, join(top, n)))
                     IN  /\ stack' = [i \in 1..Len(subdirs) |-> join(top, subdirs[i])]
                                        \o Tail(stack)
                         /\ cur' = [root |-> top, files |-> files]
                         /\ log' = Append(log, Call("scandir", top, "ok", 0))
                         /\ pc' = "visit"
                         /\ UNCHANGED faults
                \/ \E e \in WalkErrors :
                     /\ faults < MaxFaults
                     /\ faults' = faults + 1
                     /\ stack' = Tail(stack)
                     /\ log' = Append(log, Call("scandir", top, e, 0))
                     /\ UNCHANGED <<pc, cur>>
    /\ UNCHANGED <<fs, dirs, keyspaces, keyspace_path, tables,
                   oldest_file_path, oldest_file_time, out>>

\* lines 49-62: the body of the os.walk loop
Visit ==
    /\ pc = "visit"
    /\ IF ~ HasTarget(cur.files)
       THEN /\ pc' = "walk"
            /\ UNCHANGED <<oldest_file_path, oldest_file_time, out, log, faults>>
       ELSE LET full_path == full_path_of(cur.root, cur.files)
            IN  \E r \in StatResults(fs, full_path, faults) :
                  /\ faults' = IF r \in StatErrors THEN faults + 1 ELSE faults
                  /\ IF r = "ok"
                     THEN LET mtime == MTimeOf(fs, full_path)
                          IN  /\ log' = Append(log, Call("getmtime", full_path, "ok", mtime))
                              /\ IF IsOlder(mtime, oldest_file_time)
                                 THEN /\ oldest_file_time' = mtime
                                      /\ oldest_file_path' = full_path
                                 ELSE UNCHANGED <<oldest_file_path, oldest_file_time>>
                              /\ pc' = "walk"
                              /\ UNCHANGED out
                     ELSE /\ log' = Append(log, Call("getmtime", full_path, r, 0))
                          /\ UNCHANGED <<oldest_file_path, oldest_file_time>>
                          /\ IF Tolerated(r)
                             THEN /\ pc' = "walk"
                                  /\ UNCHANGED out
                             ELSE Abort(out, full_path, r)
    /\ UNCHANGED <<fs, dirs, keyspaces, keyspace_path, tables, stack, cur>>

\* lines 72-80: the keyspace loop is over, print the result
Report ==
    /\ pc = "keyspaces"
    /\ keyspaces = <<>>
    /\ out' = Append(out,
                IF IsFound(oldest_file_path, oldest_file_time)
                THEN Message("found", oldest_file_path, readable_time(oldest_file_time), "")
                ELSE Message("none_found", base_cassandra_path, 0, ""))
    /\ pc' = "done"
    /\ UNCHANGED <<fs, dirs, keyspaces, keyspace_path, tables, stack,
                   cur, oldest_file_path, oldest_file_time, log, faults>>

\* another process removes a Data.db file that os.walk has listed and the
\* scan has not yet stat'ed
ExternalRemove ==
    /\ pc = "visit"
    /\ faults < MaxFaults
    /\ \E f \in fs :
         /\ HasTarget(cur.files)
         /\ f.path = join(cur.root, TargetFileName)
         /\ fs' = fs \ {f}
    /\ faults' = faults + 1
    /\ UNCHANGED <<dirs, pc, keyspaces, keyspace_path, tables, stack,
                   cur, oldest_file_path, oldest_file_time, out, log>>

Next ==
    \/ Start
    \/ NextKeyspace
    \/ NextTable
    \/ WalkNext
    \/ Visit
    \/ Report
    \/ ExternalRemove

Spec == Init /\ [][Next]_vars

----------------------------------------------------------------------------
(* Vocabulary of the properties *)

Done == pc = "done"

BaseIsDir == base_cassandra_path \in dirs

Final == out[Len(out)]

Succeeded == Done /\ Final.msg \in {"found", "none_found"}

Aborted == Done /\ Final.msg \in {"permission_error", "unexpected_error"}

FoundMessages == { i \in 1..Len(out) : out[i].msg = "found" }

Stats == { i \in 1..Len(log) : log[i].op = "getmtime" }

OkStats == { i \in Stats : log[i].res = "ok" }

Listings == { i \in 1..Len(log) : log[i].op \in {"listdir", "scandir"} }

\* the excluded set as the specification lists it
ReservedNames == {"system", "system_schema", "system_auth",
                  "system_distributed", "system_traces", "system_views"}

\* the errnos of insufficient permission
PermissionErrnos == {"EACCES", "EPERM"}

Depth(p) == Len(p) - Len(base_cassandra_path)

Namespace(p) == p[Len(base_cassandra_path) + 1]

UnderReserved(p) == Depth(p) >= 1 /\ Namespace(p) \in ReservedNames

\* the target files of a tree: named Data.db, inside a table directory of a
\* namespace that is not excluded
Candidates(files) ==
    { f \in files : /\ IsPrefix(base_cassandra_path, f.path)
                    /\ Depth(f.path) >= 3
                    /\ basename(f.path) = "Data.db"
                    /\ ~ UnderReserved(f.path) }

Oldest(files) == { f \in files : \A g \in files : f.mtime <= g.mtime }

DistinctTimes(files) == \A f, g \in files : f.mtime = g.mtime => f = g

\* no fault other than files vanishing between listing and stat
OnlyVanished == \A i \in 1..Len(log) : log[i].res \in {"ok", "ENOENT"}

\* the first successful stat whose time is the least of all successful stats
FirstMinStat ==
    CHOOSE i \in OkStats :
        /\ \A j \in OkStats : log[i].val <= log[j].val
        /\ \A j \in OkStats : log[j].val = log[i].val => i <= j

----------------------------------------------------------------------------
(* C1: on a tree with at least one target file, pairwise distinct          *)
(* modification times of the target files, and no failing listing or stat, *)
(* the scan reports the path of the target file with the least             *)
(* modification time, and that time (rendered in whole seconds).           *)
C1_MinimumCorrectness ==
    (Done /\ BaseIsDir /\ faults = 0
          /\ Candidates(fs) # {} /\ DistinctTimes(Candidates(fs)))
    => \E f \in Oldest(Candidates(fs)) :
          /\ Final = Message("found", f.path, readable_time(f.mtime), "")
          /\ oldest_file_time = f.mtime

\* three target files in different tables and depths, the oldest not the
\* first one stat'ed
C1_Witness ==
    /\ Done /\ faults = 0
    /\ Cardinality(Candidates(fs)) = 3
    /\ DistinctTimes(Candidates(fs))
    /\ \E f \in Candidates(fs) : Depth(f.path) > 3
    /\ Final.msg = "found"
    /\ Final.path # log[CHOOSE i \in OkStats : \A j \in OkStats : i <= j].path

(* C2: nothing below a first-level directory with an excluded name is ever *)
(* listed, stat'ed, compared or reported, even when it holds a Data.db     *)
(* older than every candidate outside the excluded namespaces.             *)
C2_ExclusionCorrectness ==
    /\ \A i \in 1..Len(log) : ~ UnderReserved(log[i].path)
    /\ \A i \in FoundMessages : ~ UnderReserved(out[i].path)
    /\ oldest_file_path # None => ~ UnderReserved(oldest_file_path)
    /\ \A i \in 1..Len(stack) : ~ UnderReserved(stack[i])
    /\ pc \in {"tables", "walk", "visit"} => ~ UnderReserved(keyspace_path)

\* an excluded namespace holds a Data.db older than the file reported
C2_Witness ==
    /\ Done /\ Final.msg = "found"
    /\ \E f \in fs : /\ UnderReserved(f.path)
                     /\ basename(f.path) = "Data.db"
                     /\ \A g \in Candidates(fs) : f.mtime < g.mtime
    /\ Candidates(fs) # {}

(* C3 (as stated): whenever the listing of a directory the scan visits     *)
(* fails for insufficient permission, the scan ends with a permission      *)
(* error that carries the cause, and reports no candidate.                 *)
C3_PermissionAbort ==
    (Done /\ \E i \in Listings : log[i].res \in PermissionErrnos)
    => /\ \E i \in Listings :
            /\ log[i].res \in PermissionErrnos
            /\ Final = Message("permission_error", log[i].path, 0, log[i].res)
       /\ FoundMessages = {}

(* C4: a Data.db removed between its listing and its stat is passed over   *)
(* without a message; when vanishing files are the only faults the scan    *)
(* ends on the success path, every remaining target file was stat'ed, and  *)
(* the oldest of them is reported.                                         *)
C4_RaceTolerance ==
    (Done /\ BaseIsDir /\ OnlyVanished)
    => /\ Len(out) = 2 /\ out[1].msg = "scanning"
       /\ { log[i].path : i \in OkStats } = { f.path : f \in Candidates(fs) }
       /\ \A i \in OkStats : log[i].val = MTimeOf(fs, log[i].path)
       /\ IF Candidates(fs) = {}
          THEN Final = Message("none_found", base_cassandra_path, 0, "")
          ELSE \E f \in Oldest(Candidates(fs)) :
                  Final = Message("found", f.path, readable_time(f.mtime), "")

\* a listed Data.db was gone at its stat, and a file stat'ed later is reported
C4_Witness ==
    /\ Done /\ OnlyVanished
    /\ Final.msg = "found"
    /\ \E i \in Stats : /\ log[i].res = "ENOENT"
                        /\ \E j \in OkStats : j > i /\ log[j].path = Final.path

(* C5 (as stated): an error other than the file having vanished, raised    *)
(* while reading the modification time of one target file, does not abort  *)
(* the scan: the scan still ends on the success path.                      *)
C5_PerFileFaultTolerance ==
    (Done /\ \E i \in Stats : log[i].res \in StatErrors) => Succeeded

(* C5 (amended): an error other than the file having vanished, raised      *)
(* while reading the modification time of one target file, aborts the      *)
(* whole scan: it is the last call the scan makes, the error is reported   *)
(* with its cause (a permission fault as a permission error, any other as  *)
(* an unexpected error), and no candidate is reported.                     *)
C5_PerFileFaultAborts ==
    \A i \in Stats :
        log[i].res \in StatErrors
        => /\ i = Len(log)
           /\ Done
           /\ Final = Message(IF log[i].res \in PermissionErrnos THEN "permission_error"
                              ELSE "unexpected_error", log[i].path, 0, log[i].res)
           /\ FoundMessages = {}

\* the stat of a target file failed after an earlier target file was read
C5_Witness ==
    /\ Done
    /\ \E i \in Stats : log[i].res \in PermissionErrnos /\ \E j \in OkStats : j < i
    /\ oldest_file_path # None

(* C6: among target files sharing the least modification time the one      *)
(* stat'ed first is the current result and the one reported; a later file  *)
(* with an equal time never replaces it.                                   *)
C6_TieBreak ==
    /\ OkStats # {} => oldest_file_path = log[FirstMinStat].path
    /\ \A i \in FoundMessages : OkStats # {} /\ out[i].path = log[FirstMinStat].path

\* two files with the least time were stat'ed and the scan reported
C6_Witness ==
    /\ Done /\ Final.msg = "found"
    /\ \E i, j \in OkStats : /\ i < j
                             /\ log[i].val = log[j].val
                             /\ log[i].val = oldest_file_time
                             /\ Final.path = log[i].path

(* C7: every path the scan stats, holds as its current result or reports   *)
(* has final component exactly Data.db.                                    *)
C7_FilenameFilter ==
    /\ \A i \in Stats : basename(log[i].path) = "Data.db"
    /\ oldest_file_path # None => basename(oldest_file_path) = "Data.db"
    /\ \A i \in FoundMessages : basename(out[i].path) = "Data.db"

\* a file of another name, older than the target file beside it, was listed
\* first, and the target file is reported
C7_Witness ==
    /\ Done /\ Final.msg = "found"
    /\ \E f \in fs : /\ basename(f.path) = "nb-Data.db"
                     /\ \E g \in fs : /\ g.path = Final.path
                                      /\ f.mtime < g.mtime
                                      /\ SubSeq(f.path, 1, Len(f.path) - 1)
                                           = SubSeq(g.path, 1, Len(g.path) - 1)
    /\ cur.root = Parent(Final.path)
    /\ cur.files = <<"nb-Data.db", "Data.db">>

(* C8: regular files directly under the root or directly under a namespace *)
(* directory raise no error and never become candidates: every path        *)
(* stat'ed, held or reported lies at least three levels below the root,    *)
(* and without injected faults the scan ends on the success path.          *)
C8_NonDirectoryEntries ==
    /\ \A i \in Stats : Depth(log[i].path) >= 3
    /\ \A i \in Listings : log[i].path \in dirs
    /\ oldest_file_path # None => Depth(oldest_file_path) >= 3
    /\ \A i \in FoundMessages : Depth(out[i].path) >= 3
    /\ (Done /\ BaseIsDir /\ faults = 0) => Succeeded

\* Data.db files directly under the root and under a namespace, both older
\* than the file reported
C8_Witness ==
    /\ Done /\ Final.msg = "found"
    /\ \E f, g \in fs : /\ Depth(f.path) = 1
                        /\ Depth(g.path) = 2
                        /\ basename(f.path) = "Data.db"
                        /\ basename(g.path) = "Data.db"
                        /\ f.mtime < oldest_file_time
                        /\ g.mtime < oldest_file_time

(* C9: a scan that ends without aborting reports "none found" exactly when *)
(* no modification time was read, and a candidate exactly when one was;    *)
(* when vanishing files are the only faults and no target file remains,    *)
(* the scan ends with "none found".                                        *)
C9_NoneFound ==
    /\ (Done /\ BaseIsDir /\ ~ Aborted)
       => /\ Succeeded
          /\ (OkStats = {} <=> Final = Message("none_found", base_cassandra_path, 0, ""))
          /\ (OkStats # {} <=> Final.msg = "found")
    /\ (Done /\ BaseIsDir /\ OnlyVanished /\ Candidates(fs) = {})
       => Final.msg = "none_found"

\* the only target file vanished before its stat: none found
C9_Witness ==
    /\ Done /\ Final.msg = "none_found"
    /\ \E i \in Stats : log[i].res = "ENOENT"
    /\ OkStats = {}

\* the current result is absent exactly when no time was read; otherwise it
\* is the path and time of one file read, not later than any file read
RunningMinimum ==
    /\ OkStats = {} <=> oldest_file_path = None
    /\ OkStats = {} <=> oldest_file_time = Infinity
    /\ OkStats # {}
       => /\ \E i \in OkStats : /\ log[i].path = oldest_file_path
                                /\ log[i].val = oldest_file_time
          /\ \A i \in OkStats : oldest_file_time <= log[i].val

(* C10: at every point of the scan the current result is absent (no time   *)
(* read yet) or is the path and time of one candidate already read whose   *)
(* time is <= that of every candidate read so far; the stored time never   *)
(* increases.                                                              *)
C10_RunningMinimum ==
    /\ [] RunningMinimum
    /\ [][oldest_file_time' <= oldest_file_time]_vars

\* mid-scan, after a second file replaced the first as the current result
C10_Witness ==
    /\ pc = "walk"
    /\ Cardinality(OkStats) = 2
    /\ \E i, j \in OkStats : /\ i < j
                             /\ log[j].val < log[i].val
                             /\ oldest_file_path = log[j].path

====
